---- MODULE Spec2Model ----
(***************************************************************************)
(* Barnes-Hut quadtree (src/src/quad_tree.rs), bodies (src/src/body.rs)    *)
(* and the simulation driver (src/src/simulation.rs).                      *)
(*                                                                         *)
(* Number model.  Coordinates are f64 values of one binade, counted in     *)
(* units of its last place (GridUnit), so a coordinate is an integer and   *)
(* the only rounding a Boundary ever sees is the round-half-to-even of the *)
(* midpoint (x_min + x_max) / 2.0.  Masses are positive integers.  Every   *)
(* quantity of the tree (centre of mass, distances, forces) is kept as an  *)
(* exact real: a rational <<n, d>> in lowest terms, or a sum of rational   *)
(* multiples of square roots of squarefree integers, written as a set of   *)
(* terms [rad, c].  Both forms are canonical, so equality of values in the *)
(* model is equality of the real numbers.  Masses are counted in the unit  *)
(* that makes the gravitational constant 1.  A body's acceleration and     *)
(* velocity are rationals: a force is rounded to about 1/QScale of a grid  *)
(* unit when apply_force stores it, and a position is rounded back to the  *)
(* grid when update_position stores it.                                    *)
(***************************************************************************)
EXTENDS Integers, Sequences, FiniteSets, Bags, TLC

VARIABLES boundary, root, inserted, ret, pc, bodies, idx, theta, time_step,
          steps

vars == <<boundary, root, inserted, ret, pc, bodies, idx, theta, time_step,
          steps>>

(***************************************************************************)
(* Bounds of the model.                                                    *)
(***************************************************************************)
MaxBodies == 4
GridSize == 4
MaxSteps == 2
QScale == 8

(***************************************************************************)
(* Exact rationals.                                                        *)
(***************************************************************************)
Abs(n) == IF n < 0 THEN -n ELSE n

RECURSIVE GCD(_, _)
GCD(a, b) == IF b = 0 THEN a ELSE GCD(b, a % b)

Rat(n, d) ==
  LET s == IF d < 0 THEN -1 ELSE 1
      g == GCD(Abs(n), Abs(d))
  IN  <<(s * n) \div g, (s * d) \div g>>

RInt(i) == <<i, 1>>
RZero == <<0, 1>>
RAdd(a, b) == Rat(a[1] * b[2] + b[1] * a[2], a[2] * b[2])
RNeg(a) == <<-a[1], a[2]>>
RSub(a, b) == RAdd(a, RNeg(b))
RMul(a, b) == Rat(a[1] * b[1], a[2] * b[2])
RDiv(a, b) == Rat(a[1] * b[2], a[2] * b[1])
RLess(a, b) == a[1] * b[2] < b[1] * a[2]
RVecZero == <<RZero, RZero>>

\* the integer nearest to a rational, ties to the even one
RoundHalfEven(q) ==
  LET f == q[1] \div q[2]
      twice == 2 * (q[1] - f * q[2])
  IN  IF twice < q[2] THEN f
      ELSE IF twice > q[2] THEN f + 1
      ELSE IF f % 2 = 0 THEN f ELSE f + 1

\* the largest k in lo..hi with k * k <= n
RECURSIVE ISqrtIn(_, _, _)
ISqrtIn(n, lo, hi) ==
  IF lo = hi THEN lo
  ELSE LET mid == (lo + hi + 1) \div 2
       IN  IF mid <= n \div mid THEN ISqrtIn(n, mid, hi)
           ELSE ISqrtIn(n, lo, mid - 1)

ISqrt(n) == ISqrtIn(n, 0, 46340)

(***************************************************************************)
(* Exact sums of square roots: a number is a set of terms [rad, c] that    *)
(* stands for the sum of c * sqrt(rad), rad squarefree and distinct, c a   *)
(* nonzero rational.  Square roots of distinct squarefree integers are     *)
(* linearly independent over the rationals, so the form is unique.         *)
(***************************************************************************)
RadZero == {}
RadFromRat(q) == IF q[1] = 0 THEN {} ELSE {[rad |-> 1, c |-> q]}
RadCoef(A, r) ==
  IF \E t \in A : t.rad = r THEN (CHOOSE t \in A : t.rad = r).c ELSE RZero
RadAdd(A, B) ==
  LET rs == {t.rad : t \in A \cup B}
      sum == {[rad |-> r, c |-> RAdd(RadCoef(A, r), RadCoef(B, r))] : r \in rs}
  IN  {t \in sum : t.c[1] # 0}
RadScale(q, A) ==
  IF q[1] = 0 THEN {} ELSE {[rad |-> t.rad, c |-> RMul(q, t.c)] : t \in A}
RadNeg(A) == RadScale(RInt(-1), A)

\* the largest s with s * s dividing n, searched from the trial divisor t
RECURSIVE SquarePart(_, _)
SquarePart(n, t) ==
  IF t > n \div t THEN 1
  ELSE IF n % (t * t) = 0 THEN t * SquarePart(n \div (t * t), t)
  ELSE SquarePart(n, t + 1)

\* 1 / sqrt(x) for a rational x = p/q > 0:  sqrt(p*q) / p
InvSqrt(x) ==
  LET sp == SquarePart(x[1], 2)
      sq == SquarePart(x[2], 2)
      rad == (x[1] \div (sp * sp)) * (x[2] \div (sq * sq))
  IN  {[rad |-> rad, c |-> Rat(sp * sq, x[1])]}

\* one term as a count of 1/QScale: the square root is taken to
\* 1/QScale^2 and the product rounded to the nearest count
TermQuantum(t) ==
  LET w == ISqrt(t.rad * QScale * QScale * QScale * QScale)
  IN  RoundHalfEven(Rat(t.c[1] * w, t.c[2] * QScale))

RECURSIVE SumQuanta(_)
SumQuanta(A) ==
  IF A = {} THEN 0
  ELSE LET t == CHOOSE x \in A : TRUE
       IN  TermQuantum(t) + SumQuanta(A \ {t})

\* a sum of square roots as the f64 that stores it
Quantize(A) == Rat(SumQuanta(A), QScale)

ZeroVec == <<RadZero, RadZero>>
VecAdd(u, v) == <<RadAdd(u[1], v[1]), RadAdd(u[2], v[2])>>
VecNeg(u) == <<RadNeg(u[1]), RadNeg(u[2])>>
VecScale(q, u) == <<RadScale(q, u[1]), RadScale(q, u[2])>>

(***************************************************************************)
(* body.rs: Body.  The _radius field is written once and never read.       *)
(***************************************************************************)
Body_new(position, velocity, mass) ==
  [position |-> position, velocity |-> velocity, acceleration |-> RVecZero,
   mass |-> mass]

update_position(body, dt) ==
  LET Moved(k) ==
        RoundHalfEven(
          RAdd(RInt(body.position[k]),
               RAdd(RMul(body.velocity[k], RInt(dt)),
                    RMul(<<1, 2>>, RMul(body.acceleration[k], RInt(dt * dt))))))
  IN  [body EXCEPT !.position = <<Moved(1), Moved(2)>>]

update_velocity(body, dt) ==
  [body EXCEPT !.velocity =
     <<RAdd(body.velocity[1], RMul(body.acceleration[1], RInt(dt))),
       RAdd(body.velocity[2], RMul(body.acceleration[2], RInt(dt)))>>]

\* variant of apply_force that also moves the body by one unit of time
apply_force_moving(body, force) ==
  update_position(
    [body EXCEPT !.acceleration =
       <<RDiv(Quantize(force[1]), RInt(body.mass)),
         RDiv(Quantize(force[2]), RInt(body.mass))>>], 1)
apply_force(body, force) ==
  [body EXCEPT !.acceleration =
     <<RDiv(Quantize(force[1]), RInt(body.mass)),
       RDiv(Quantize(force[2]), RInt(body.mass))>>]

(***************************************************************************)
(* quad_tree.rs: Boundary.                                                 *)
(***************************************************************************)
Boundary(x_min, x_max, y_min, y_max) ==
  [x_min |-> x_min, x_max |-> x_max, y_min |-> y_min, y_max |-> y_max]

contains(b, x, y) ==
  x >= b.x_min /\ x <= b.x_max /\ y >= b.y_min /\ y <= b.y_max

\* (a + b) / 2.0 in f64: a + b is exact or a tie between two neighbours of
\* the next binade, which rounds to the even one; the halving is exact.
Midpoint(a, b) ==
  LET s == a + b
      f == s \div 2
  IN  IF s % 2 = 0 THEN f ELSE IF f % 2 = 0 THEN f ELSE f + 1

center(b) == <<Midpoint(b.x_min, b.x_max), Midpoint(b.y_min, b.y_max)>>

subdivide(b) ==
  LET x_center == center(b)[1]
      y_center == center(b)[2]
  IN  << Boundary(b.x_min, x_center, b.y_min, y_center),
         Boundary(x_center, b.x_max, b.y_min, y_center),
         Boundary(b.x_min, x_center, y_center, b.y_max),
         Boundary(x_center, b.x_max, y_center, b.y_max) >>

(***************************************************************************)
(* quad_tree.rs: QuadTreeNode.  None is the empty Option of a child slot.  *)
(***************************************************************************)
None == [kind |-> "None"]
Empty == [kind |-> "Empty"]
Leaf(body) == [kind |-> "Leaf", body |-> body]
Internal(center_of_mass, total_mass, children) ==
  [kind |-> "Internal", center_of_mass |-> center_of_mass,
   total_mass |-> total_mass, children |-> children]

NoChildren == <<None, None, None, None>>

\* for (i, quadrant) in quadrants.iter().enumerate() { if contains { .. break } }
\* the index of the quadrant the loop body runs for, 0 when it never runs
RECURSIVE QuadrantFrom(_, _, _)
QuadrantFrom(quadrants, position, i) ==
  IF i > 4 THEN 0
  ELSE IF contains(quadrants[i], position[1], position[2]) THEN i
  ELSE QuadrantFrom(quadrants, position, i + 1)

\* variant of QuadrantOf in which the last matching quadrant wins
QuadrantOf_last(quadrants, position) ==
  IF \E i \in 1..4 : contains(quadrants[i], position[1], position[2])
  THEN CHOOSE i \in 1..4 :
         /\ contains(quadrants[i], position[1], position[2])
         /\ \A j \in (i + 1)..4 :
              ~contains(quadrants[j], position[1], position[2])
  ELSE 0
QuadrantOf(quadrants, position) == QuadrantFrom(quadrants, position, 1)

\* one child's share of (total_mass, x_mass_sum, y_mass_sum)
ChildMoment(node) ==
  CASE node.kind = "Leaf" ->
         <<RInt(node.body.mass),
           RInt(node.body.position[1] * node.body.mass),
           RInt(node.body.position[2] * node.body.mass)>>
    [] node.kind = "Internal" ->
         <<RInt(node.total_mass),
           RMul(node.center_of_mass[1], RInt(node.total_mass)),
           RMul(node.center_of_mass[2], RInt(node.total_mass))>>
    [] OTHER -> <<RZero, RZero, RZero>>

calculate_center_of_mass(children) ==
  LET m == [i \in 1..4 |-> ChildMoment(children[i])]
      Sum(k) == RAdd(RAdd(m[1][k], m[2][k]), RAdd(m[3][k], m[4][k]))
      total_mass == Sum(1)
      x_mass_sum == Sum(2)
      y_mass_sum == Sum(3)
  IN  IF RLess(RZero, total_mass)
      THEN <<RDiv(x_mass_sum, total_mass), RDiv(y_mass_sum, total_mass)>>
      ELSE <<RZero, RZero>>

LeafTotalMass(body, existing_body) == body.mass + existing_body.mass

\* variant of InternalTotalMass that forgets the new mass
InternalTotalMass_stale(total_mass, body) == total_mass
InternalTotalMass(total_mass, body) == total_mass + body.mass

\* The recursive call of the Leaf arm (quad_tree.rs:99-102) is made on a
\* Leaf holding existing_body, with the same body; when the quadrant it is
\* given equals the boundary it came from, the call repeats itself with
\* identical arguments and the recursion never returns.
RECURSIVE LeafInsertDiverges(_, _, _)
LeafInsertDiverges(existing_body, body, b) ==
  LET quadrants == subdivide(b)
      ie == QuadrantOf(quadrants, existing_body.position)
      ib == QuadrantOf(quadrants, body.position)
  IN  /\ existing_body.position # body.position
      /\ ib # 0
      /\ ib = ie
      /\ \/ quadrants[ib] = b
         \/ LeafInsertDiverges(existing_body, body, quadrants[ib])

RECURSIVE InsertDiverges(_, _, _)
InsertDiverges(node, body, b) ==
  CASE node.kind = "Leaf" -> LeafInsertDiverges(node.body, body, b)
    [] node.kind = "Internal" ->
         LET quadrants == subdivide(b)
             i == QuadrantOf(quadrants, body.position)
         IN  /\ i # 0
             /\ node.children[i].kind # "None"
             /\ InsertDiverges(node.children[i], body, quadrants[i])
    [] OTHER -> FALSE

\* QuadTreeNode::insert, for arguments on which it returns
RECURSIVE insert(_, _, _)
insert(node, body, b) ==
  CASE node.kind = "Empty" -> Leaf(body)
    [] node.kind = "Leaf" ->
         LET existing_body == node.body IN
         IF existing_body.position = body.position THEN node
         ELSE
           LET quadrants == subdivide(b)
               ie == QuadrantOf(quadrants, existing_body.position)
               withExisting ==
                 IF ie = 0 THEN NoChildren
                 ELSE [NoChildren EXCEPT ![ie] = Leaf(existing_body)]
               ib == QuadrantOf(quadrants, body.position)
               children ==
                 IF ib = 0 THEN withExisting
                 ELSE IF withExisting[ib].kind = "None"
                 THEN [withExisting EXCEPT ![ib] = Leaf(body)]
                 ELSE [withExisting EXCEPT
                         ![ib] = insert(withExisting[ib], body, quadrants[ib])]
           IN  Internal(calculate_center_of_mass(children),
                        LeafTotalMass(body, existing_body), children)
    [] node.kind = "Internal" ->
         LET quadrants == subdivide(b)
             i == QuadrantOf(quadrants, body.position)
             slot == IF i # 0 /\ node.children[i].kind = "None"
                     THEN Empty ELSE node.children[i]
             children ==
               IF i = 0 THEN node.children
               ELSE [node.children EXCEPT
                       ![i] = insert(slot, body, quadrants[i])]
         IN  Internal(calculate_center_of_mass(children),
                      InternalTotalMass(node.total_mass, body), children)

(***************************************************************************)
(* quad_tree.rs: force evaluation.                                         *)
(***************************************************************************)
\* the gravitational constant, in the model's units (see the header)
G == 1

\* 1 / (1e-10)^2 in grid units of 2^-18 (coordinates in [2^34, 2^35)),
\* rounded up: d < 1e-10 iff d_squared * EpsSqInv < 1 for every rational
\* d_squared the model can hold.  On binades below 2^20 the guard would
\* also cover distinct grid points; those are outside this model.
EpsSqInv == 1455191523

\* d < 1e-10, for d = d_squared.sqrt()
BelowEpsilon(d_squared) == d_squared[1] <= d_squared[2] \div EpsSqInv

calculate_gravity(body, other_pos, other_mass) ==
  LET dx == RSub(other_pos[1], RInt(body.position[1]))
      dy == RSub(other_pos[2], RInt(body.position[2]))
      d_squared == RAdd(RMul(dx, dx), RMul(dy, dy))
  IN  IF BelowEpsilon(d_squared) THEN ZeroVec
      ELSE LET force == RDiv(RInt(G * body.mass * other_mass), d_squared)
               inv_d == InvSqrt(d_squared)
           IN  <<RadScale(RMul(force, dx), inv_d),
                 RadScale(RMul(force, dy), inv_d)>>

ZeroBoundary == Boundary(0, 0, 0, 0)

RECURSIVE get_boundary(_)
get_boundary(node) ==
  IF node.kind = "Internal"
  THEN IF node.children[1].kind # "None"
       THEN get_boundary(node.children[1])
       ELSE ZeroBoundary
  ELSE ZeroBoundary

get_boundary_size(node) ==
  IF node.kind = "Internal"
  THEN IF node.children[1].kind # "None"
       THEN LET b == get_boundary(node.children[1]) IN b.x_max - b.x_min
       ELSE 0
  ELSE 0

\* (s / d) < theta for s >= 0, d = sqrt(d_squared) > 0 and a rational theta,
\* decided on the squares
RatioBelow(s, d_squared, th) ==
  /\ RLess(RZero, th)
  /\ RLess(RInt(s * s), RMul(RMul(th, th), d_squared))

\* the square of the distance from the body to the node's centre of mass
DistSquared(node, body) ==
  LET dx == RSub(node.center_of_mass[1], RInt(body.position[1]))
      dy == RSub(node.center_of_mass[2], RInt(body.position[2]))
  IN  RAdd(RMul(dx, dx), RMul(dy, dy))

\* if d == 0.0 || (self.get_boundary_size() / d) < theta
OpeningTest(node, body, th) ==
  LET d_squared == DistSquared(node, body)
  IN  d_squared = RZero \/ RatioBelow(get_boundary_size(node), d_squared, th)

RECURSIVE calculate_force(_, _, _)
calculate_force(node, body, th) ==
  CASE node.kind = "Leaf" ->
         IF body.position = node.body.position THEN ZeroVec
         ELSE calculate_gravity(body,
                <<RInt(node.body.position[1]), RInt(node.body.position[2])>>,
                node.body.mass)
    [] node.kind = "Internal" ->
         IF OpeningTest(node, body, th)
         THEN calculate_gravity(body, node.center_of_mass, node.total_mass)
         ELSE LET f == [i \in 1..4 |->
                          IF node.children[i].kind = "None" THEN ZeroVec
                          ELSE calculate_force(node.children[i], body, th)]
              IN  VecAdd(VecAdd(VecAdd(f[1], f[2]), f[3]), f[4])
    [] OTHER -> ZeroVec

(***************************************************************************)
(* Inputs.                                                                 *)
(***************************************************************************)
\* root boundaries: one whose lower edges have an even last place, one odd
Boundaries == {Boundary(0, GridSize, 0, GridSize),
               Boundary(1, GridSize + 1, 1, GridSize + 1)}

\* sample bodies, at rest: two at the same position, three on a line with
\* the middle one at the centre of mass of the outer two, one off that
\* line, and one that lies outside every root boundary
Bodies == {Body_new(<<1, 1>>, RVecZero, 1), Body_new(<<1, 1>>, RVecZero, 2),
           Body_new(<<2, 2>>, RVecZero, 1), Body_new(<<4, 4>>, RVecZero, 1),
           Body_new(<<3, 1>>, RVecZero, 2), Body_new(<<7, 7>>, RVecZero, 1)}

\* theta, as rationals
Thetas == {<<0, 1>>, <<1, 2>>}

NoReturn == [theta |-> <<-1, 1>>]

(***************************************************************************)
(* The life of one QuadTree, as Simulation::update drives it               *)
(* (simulation.rs:25-39): new, the inserts, then the force queries.  The   *)
(* bodies inserted are arbitrary.  inserted is the multiset of bodies      *)
(* passed to insert, ret the value the last calculate_force returned; pc   *)
(* is "build" while bodies are inserted, "query" once forces are asked     *)
(* for, and "aborted" once an insert has overflowed the stack.             *)
(***************************************************************************)
QuadTree_new(b) ==
  /\ boundary = b
  /\ root = Empty

Init ==
  /\ \E b \in Boundaries : QuadTree_new(b)
  /\ inserted = EmptyBag
  /\ ret = NoReturn
  /\ pc = "build"
  /\ bodies = <<>>
  /\ idx = 0
  /\ theta = RZero
  /\ time_step = 0
  /\ steps = 0

QuadTree_insert(body) ==
  /\ pc = "build"
  /\ BagCardinality(inserted) < MaxBodies
  /\ inserted' = inserted (+) SetToBag({body})
  /\ IF InsertDiverges(root, body, boundary)
     THEN pc' = "aborted" /\ UNCHANGED root
     ELSE root' = insert(root, body, boundary) /\ UNCHANGED pc
  /\ UNCHANGED <<boundary, ret, bodies, idx, theta, time_step, steps>>

QuadTree_calculate_force(body, th) ==
  /\ pc \in {"build", "query"}
  /\ pc' = "query"
  /\ ret' = [body |-> body, theta |-> th,
             force |-> calculate_force(root, body, th)]
  /\ UNCHANGED <<boundary, root, inserted, bodies, idx, theta, time_step,
                 steps>>

Next ==
  \/ \E body \in Bodies : QuadTree_insert(body)
  \/ \E body \in BagToSet(inserted), th \in Thetas :
       QuadTree_calculate_force(body, th)

Spec == Init /\ [][Next]_vars

(***************************************************************************)
(* simulation.rs: Simulation.  update is one action per iteration of each  *)
(* of its four loops; pc names the loop and idx the body it is at.  steps  *)
(* counts the updates run has completed.                                   *)
(***************************************************************************)
SimBodies == {Body_new(<<1, 1>>, RVecZero, 1), Body_new(<<1, 1>>, RVecZero, 2),
              Body_new(<<2, 2>>, RVecZero, 1), Body_new(<<4, 4>>, RVecZero, 1),
              Body_new(<<3, 1>>, <<RInt(-1), RZero>>, 2)}

\* the vectors of two or three different bodies
SimStarts ==
  {bs \in [1..2 -> SimBodies] \cup [1..3 -> SimBodies] :
     \A i, j \in DOMAIN bs : i # j => bs[i] # bs[j]}

TimeSteps == {1, 2}

Simulation_new(bs, b, th, dt) ==
  /\ bodies = bs
  /\ QuadTree_new(b)
  /\ theta = th
  /\ time_step = dt

SimInit ==
  /\ \E bs \in SimStarts, b \in Boundaries, th \in Thetas, dt \in TimeSteps :
       Simulation_new(bs, b, th, dt)
  /\ inserted = EmptyBag
  /\ ret = NoReturn
  /\ pc = "idle"
  /\ idx = 0
  /\ steps = 0

\* the loop over the bodies moves on, or ends and hands over to next
Advance(next) ==
  IF idx < Len(bodies)
  THEN idx' = idx + 1 /\ pc' = pc
  ELSE idx' = 1 /\ pc' = next

\* self.quad_tree = QuadTree::new(self.quad_tree.get_boundary().clone())
update_new ==
  /\ pc = "idle"
  /\ steps < MaxSteps
  /\ root' = Empty
  /\ boundary' = boundary
  /\ inserted' = EmptyBag
  /\ pc' = "insert"
  /\ idx' = 1
  /\ UNCHANGED <<ret, bodies, theta, time_step, steps>>

\* self.quad_tree.insert(body.clone())
update_insert ==
  /\ pc = "insert"
  /\ inserted' = inserted (+) SetToBag({bodies[idx]})
  /\ IF InsertDiverges(root, bodies[idx], boundary)
     THEN pc' = "aborted" /\ UNCHANGED <<root, idx>>
     ELSE root' = insert(root, bodies[idx], boundary) /\ Advance("reset")
  /\ UNCHANGED <<boundary, ret, bodies, theta, time_step, steps>>

\* body.acceleration = (0.0, 0.0)
update_reset ==
  /\ pc = "reset"
  /\ bodies' = [bodies EXCEPT ![idx].acceleration = RVecZero]
  /\ Advance("force")
  /\ UNCHANGED <<boundary, root, inserted, ret, theta, time_step, steps>>

\* let force = self.quad_tree.calculate_force(body, self.theta);
\* body.apply_force(force)
update_force ==
  /\ pc = "force"
  /\ LET force == calculate_force(root, bodies[idx], theta)
     IN  /\ ret' = [body |-> bodies[idx], theta |-> theta, force |-> force]
         /\ bodies' = [bodies EXCEPT ![idx] = apply_force(bodies[idx], force)]
  /\ Advance("integrate")
  /\ UNCHANGED <<boundary, root, inserted, theta, time_step, steps>>

\* body.update_velocity(self.time_step); body.update_position(self.time_step)
update_integrate ==
  /\ pc = "integrate"
  /\ bodies' = [bodies EXCEPT
       ![idx] = update_position(update_velocity(bodies[idx], time_step),
                                time_step)]
  /\ IF idx < Len(bodies)
     THEN idx' = idx + 1 /\ UNCHANGED <<pc, steps>>
     ELSE idx' = 0 /\ pc' = "idle" /\ steps' = steps + 1
  /\ UNCHANGED <<boundary, root, inserted, ret, theta, time_step>>

SimNext ==
  \/ update_new
  \/ update_insert
  \/ update_reset
  \/ update_force
  \/ update_integrate

SimSpec == SimInit /\ [][SimNext]_vars

(***************************************************************************)
(* Vocabulary of the claims.                                               *)
(***************************************************************************)
\* the multiset of bodies held by the Leaf nodes of a subtree
RECURSIVE LeafBodies(_)
LeafBodies(node) ==
  CASE node.kind = "Leaf" -> SetToBag({node.body})
    [] node.kind = "Internal" ->
         LeafBodies(node.children[1]) (+) LeafBodies(node.children[2])
           (+) LeafBodies(node.children[3]) (+) LeafBodies(node.children[4])
    [] OTHER -> EmptyBag

\* the sum of f[b] over the bodies b of S, each counted as often as it is
\* in the multiset B
RECURSIVE SumOver(_, _, _)
SumOver(S, B, f) ==
  IF S = {} THEN 0
  ELSE LET b == CHOOSE x \in S : TRUE
       IN  CopiesIn(b, B) * f[b] + SumOver(S \ {b}, B, f)

BagMass(B) == SumOver(BagToSet(B), B, [b \in BagToSet(B) |-> b.mass])

\* the mass-weighted average position of a non-empty multiset of bodies
WeightedAverage(B) ==
  LET XM == [b \in BagToSet(B) |-> b.position[1] * b.mass]
      YM == [b \in BagToSet(B) |-> b.position[2] * b.mass]
  IN  <<Rat(SumOver(BagToSet(B), B, XM), BagMass(B)),
        Rat(SumOver(BagToSet(B), B, YM), BagMass(B))>>

RootMass(node) ==
  CASE node.kind = "Leaf" -> node.body.mass
    [] node.kind = "Internal" -> node.total_mass
    [] OTHER -> 0

\* the Internal nodes of a subtree
RECURSIVE InternalNodes(_)
InternalNodes(node) ==
  IF node.kind = "Internal"
  THEN {node} \cup UNION {InternalNodes(node.children[i]) : i \in 1..4}
  ELSE {}

InsideRoot(b) ==
  /\ boundary.x_min <= b.position[1] /\ b.position[1] <= boundary.x_max
  /\ boundary.y_min <= b.position[2] /\ b.position[2] <= boundary.y_max

AllInside == \A b \in BagToSet(inserted) : InsideRoot(b)

DistinctPositions ==
  \A a, b \in BagToSet(inserted) :
    /\ CopiesIn(a, inserted) = 1
    /\ a.position = b.position => a = b

Returned == pc # "aborted"

\* the sum of the pairwise forces the other inserted bodies exert on body
RECURSIVE PairwiseSum(_, _)
PairwiseSum(body, S) ==
  IF S = {} THEN ZeroVec
  ELSE LET o == CHOOSE x \in S : TRUE
       IN  VecAdd(calculate_gravity(body,
                    <<RInt(o.position[1]), RInt(o.position[2])>>, o.mass),
                  PairwiseSum(body, S \ {o}))

(***************************************************************************)
(* C1 as claimed: after any sequence of inserts that returned, the root's  *)
(* aggregate mass is the sum of the masses of all inserted bodies.         *)
(***************************************************************************)
C1_MassConservation ==
  Returned => RootMass(root) = BagMass(inserted)

(***************************************************************************)
(* C1 amended: the same, for bodies inserted at pairwise distinct          *)
(* positions.                                                              *)
(***************************************************************************)
C1_MassConservationDistinct ==
  (Returned /\ DistinctPositions) => RootMass(root) = BagMass(inserted)

C1_Witness ==
  /\ Returned /\ DistinctPositions
  /\ BagCardinality(inserted) = 4
  /\ root.kind = "Internal"
  /\ \E i \in 1..4 : root.children[i].kind = "Internal"

(***************************************************************************)
(* C2: every Internal node's total_mass is the sum of the masses of the    *)
(* bodies held by the Leaf nodes beneath it.  Stated for bodies inside the *)
(* root boundary, where every insert is routed.                            *)
(***************************************************************************)
MassIsLeafSum(node) == node.total_mass = BagMass(LeafBodies(node))

C2_AggregateMass ==
  (Returned /\ AllInside) => \A node \in InternalNodes(root) : MassIsLeafSum(node)

(***************************************************************************)
(* C3: every Internal node's center_of_mass is the mass-weighted average   *)
(* position of the bodies held by the Leaf nodes of its subtree.  Stated   *)
(* for bodies inside the root boundary.                                    *)
(***************************************************************************)
ComIsLeafAverage(node) ==
  node.center_of_mass = WeightedAverage(LeafBodies(node))

C3_CenterOfMass ==
  (Returned /\ AllInside) => \A node \in InternalNodes(root) : ComIsLeafAverage(node)

(***************************************************************************)
(* C4: in a tree holding exactly two bodies at distinct positions inside   *)
(* the boundary, calculate_force for either body returns the direct        *)
(* pairwise force against the other, whatever theta is.                    *)
(***************************************************************************)
C4_TwoBodyExact ==
  (pc = "query" /\ BagCardinality(inserted) = 2 /\ DistinctPositions
     /\ AllInside)
  => ret.force = PairwiseSum(ret.body, BagToSet(inserted) \ {ret.body})

(***************************************************************************)
(* C5: for bodies at pairwise distinct positions inside the boundary,      *)
(* calculate_force with theta = 0 returns the exact sum of the pairwise    *)
(* forces of all other inserted bodies.                                    *)
(***************************************************************************)
C5_ExactAtThetaZero ==
  (pc = "query" /\ DistinctPositions /\ AllInside /\ ret.theta = RZero)
  => ret.force = PairwiseSum(ret.body, BagToSet(inserted) \ {ret.body})

(***************************************************************************)
(* C6: in a tree holding exactly two bodies A and B at distinct positions, *)
(* the force returned for A is the opposite of the force returned for B,   *)
(* for the same theta.                                                     *)
(***************************************************************************)
C6_Symmetry ==
  (pc = "query" /\ BagCardinality(inserted) = 2 /\ DistinctPositions
     /\ AllInside)
  => \A other \in BagToSet(inserted) \ {ret.body} :
       ret.force = VecNeg(calculate_force(root, other, ret.theta))

(***************************************************************************)
(* C7: every insert of a body inside the boundary returns: an insert that  *)
(* never returns was given a body outside it.                              *)
(***************************************************************************)
C7_InsertTerminates == pc = "aborted" => ~AllInside

(***************************************************************************)
(* C8: after inserting bodies at pairwise distinct positions inside the    *)
(* root boundary, the Leaf nodes hold exactly the inserted bodies, each    *)
(* once, and every Leaf lies, at every level above it, in the first        *)
(* quadrant in subdivide() order whose inclusive bounds hold its body.     *)
(***************************************************************************)
FirstQuadrantHolding(quadrants, p) ==
  CHOOSE i \in 1..4 :
    LET Holds(q) == /\ q.x_min <= p[1] /\ p[1] <= q.x_max
                    /\ q.y_min <= p[2] /\ p[2] <= q.y_max
    IN  Holds(quadrants[i]) /\ \A j \in 1..(i - 1) : ~Holds(quadrants[j])

RECURSIVE WellPlaced(_, _)
WellPlaced(node, b) ==
  node.kind = "Internal" =>
    \A i \in 1..4 :
      /\ \A x \in BagToSet(LeafBodies(node.children[i])) :
           FirstQuadrantHolding(subdivide(b), x.position) = i
      /\ WellPlaced(node.children[i], subdivide(b)[i])

ChildForceSum(node, body, th) ==
  LET f == [i \in 1..4 |->
              IF node.children[i].kind = "None" THEN ZeroVec
              ELSE calculate_force(node.children[i], body, th)]
  IN  VecAdd(VecAdd(VecAdd(f[1], f[2]), f[3]), f[4])

RECURSIVE GateRespected(_, _, _, _)
GateRespected(node, b, body, th) ==
  node.kind = "Internal" =>
    LET d_squared == DistSquared(node, body)
        s == b.x_max - b.x_min
        present == {i \in 1..4 : node.children[i].kind # "None"}
    IN  d_squared # RZero =>
          /\ OpeningTest(node, body, th) => RatioBelow(s, d_squared, th)
          /\ ~RatioBelow(s, d_squared, th) =>
               calculate_force(node, body, th) = ChildForceSum(node, body, th)
          /\ ~OpeningTest(node, body, th) =>
               \A i \in present :
                 GateRespected(node.children[i], subdivide(b)[i], body, th)

C9_OpeningAngle ==
  pc = "query" => GateRespected(root, boundary, ret.body, ret.theta)

(***************************************************************************)
(* C10: in every update the tree is first rebuilt from an Empty root with  *)
(* the boundary of the step before and receives a copy of every body at    *)
(* its current position; then the force of every body is queried against   *)
(* that tree; no position or velocity changes from the start of the        *)
(* rebuild to the last force query, and the boundary never changes.        *)
(***************************************************************************)
\* a body as insert and calculate_force read it
AsInserted(body) == [body EXCEPT !.acceleration = RVecZero]

RECURSIVE Stripped(_)
Stripped(node) ==
  CASE node.kind = "Leaf" -> Leaf(AsInserted(node.body))
    [] node.kind = "Internal" ->
         Internal(node.center_of_mass, node.total_mass,
                  [i \in 1..4 |-> Stripped(node.children[i])])
    [] OTHER -> node

\* the tree a fresh root becomes by inserting the first k bodies in order
RECURSIVE Rebuilt(_)
Rebuilt(k) ==
  IF k = 0 THEN Empty
  ELSE insert(Rebuilt(k - 1), AsInserted(bodies[k]), boundary)

ForcesApplied ==
  \A i \in DOMAIN bodies :
    bodies[i].acceleration
      = apply_force(bodies[i],
                    calculate_force(root, bodies[i], theta)).acceleration

StepState ==
  /\ pc = "insert" => Stripped(root) = Rebuilt(idx - 1)
  /\ pc \in {"reset", "force"} => Stripped(root) = Rebuilt(Len(bodies))
  /\ (pc = "integrate" /\ idx = 1) =>
       Stripped(root) = Rebuilt(Len(bodies)) /\ ForcesApplied

PhaseOrder ==
  {<<"idle", "insert">>, <<"insert", "reset">>, <<"insert", "aborted">>,
   <<"reset", "force">>, <<"force", "integrate">>, <<"integrate", "idle">>}

StepAction ==
  /\ boundary' = boundary
  /\ pc' # pc => <<pc, pc'>> \in PhaseOrder
  /\ pc' = "insert" /\ pc = "idle" => root' = Empty
  /\ pc \in {"idle", "insert", "reset", "force"} =>
       /\ DOMAIN bodies' = DOMAIN bodies
       /\ \A i \in DOMAIN bodies :
            /\ bodies'[i].position = bodies[i].position
            /\ bodies'[i].velocity = bodies[i].velocity

C10_StepOrder == [](StepState) /\ [][StepAction]_vars

C10_Witness ==
  /\ steps = 1 /\ pc = "integrate" /\ idx = 1
  /\ root.kind = "Internal"
  /\ \E i \in DOMAIN bodies :
       /\ bodies[i].velocity # RVecZero
       /\ bodies[i].acceleration # RVecZero
       /\ bodies[i].position \notin {b.position : b \in SimBodies}

====
